---- MODULE Spec2Model ----
(***************************************************************************)
(* A model of the bTCP socket base class (btcp/btcp_socket.py): the        *)
(* Internet checksum, the 10-byte header codec, the socket's construction  *)
(* and, from the design document, the connection state machine and the     *)
(* Go-Back-N delivery engine that are built on top of it.                  *)
(*                                                                         *)
(* Bytes are the integers 0..255 and a bytes object is a sequence of them  *)
(* (Python index i is TLA+ index i+1).                                     *)
(***************************************************************************)
EXTENDS Integers, Sequences, FiniteSets, TLC

\* ------------------------------------------------------------------------
\* Bounds of the model
\* ------------------------------------------------------------------------

\* The longest payload, in 16-bit words, that follows a header.
MaxPayloadWords == 1

\* The largest window a socket is constructed with.
MaxWindow == 2

\* The most signals that wait in the mailbox.
MaxMailbox == 2

\* The retransmissions made before a connection is given up.
MaxRetries == 1

\* The 16-bit words the application sends on a connection.
MaxWords == 2

\* The segments the lossy layer loses, duplicates or damages on a connection.
MaxFaults == 2

\* ------------------------------------------------------------------------
\* State
\* ------------------------------------------------------------------------

VARIABLES
    pc,         \* the position of the driver that calls the static helpers
    args,       \* the arguments build_segment_header was called with
    segment,    \* the bytes at hand: a header, or a header and its payload
    cksum,      \* what the last call of in_cksum returned
    verified,   \* what the last call of verify_checksum returned
    unpacked,   \* what the last call of unpack_segment_header returned
    ctor,       \* the (window, timeout) the socket was constructed with
    _state,     \* BTCPSocket._state
    _window,    \* BTCPSocket._window
    _timeout,   \* BTCPSocket._timeout
    mailbox,    \* the signals the application issued, not yet handled
    rcv_nxt,    \* the next sequence number expected from the peer
    snd_nxt,    \* the next sequence number to send
    timer,      \* whether the retransmission timer runs
    retries,    \* the timeouts since the timer was started
    error,      \* the error surfaced to the application
    outbox,     \* the last segment handed to the lossy layer
    discarded,  \* whether the connection went back to CLOSED and is done
    sent_stream,  \* every byte the application has sent so far
    send_buffer,  \* the bytes awaiting segmentation
    outstanding,  \* the segments sent and not yet acknowledged, oldest first
    snd_una,      \* the highest acknowledged sequence number
    peer_window,  \* the window the peer advertised
    rwnd,         \* the window the peer was constructed with
    expected,     \* the sequence number the peer expects next
    recv_buffer,  \* the bytes the peer has delivered to its application
    data_chan,    \* the segments in flight to the peer
    ack_chan,     \* the segments in flight from the peer
    faults,       \* the segments the lossy layer lost, duplicated or damaged
    early         \* whether a timeout fired with a segment still in flight

codecVars == <<pc, args, segment, cksum, verified, unpacked>>
fieldVars == <<ctor, _state, _window, _timeout>>
fsmVars == <<mailbox, snd_nxt, rcv_nxt, timer, retries, error, outbox, discarded>>
gbnVars ==
    <<sent_stream, send_buffer, outstanding, snd_una, peer_window, rwnd,
      expected, recv_buffer, data_chan, ack_chan, faults, early>>
vars == <<codecVars, fieldVars, fsmVars, gbnVars>>

\* ------------------------------------------------------------------------
\* Python's bytes, slices and struct
\* ------------------------------------------------------------------------

None == "None"
StructError == "struct.error"
IndexError == "IndexError"

Min(a, b) == IF a <= b THEN a ELSE b

\* s[lo:hi] of Python, for 0 <= lo <= hi: a slice never raises, it is cut
\* at the end of s.
PySlice(s, lo, hi) == SubSeq(s, Min(lo, Len(s)) + 1, Min(hi, Len(s)))

\* s[lo:] of Python.
PyTail(s, lo) == PySlice(s, lo, Len(s))

\* struct.pack('!H', v): two bytes, the high one first; struct.error when v
\* does not fit 16 bits.
PackH(v) == IF v \in 0..65535 THEN <<v \div 256, v % 256>> ELSE StructError

\* struct.pack('!B', v): one byte; struct.error when v does not fit 8 bits.
PackB(v) == IF v \in 0..255 THEN <<v>> ELSE StructError

\* The 16-bit value struct.unpack reads from the two bytes hi, lo.
UnpackH(hi, lo) == hi * 256 + lo

\* int(b) of a bool, as << and | use it.
BoolInt(b) == IF b THEN 1 ELSE 0

\* ------------------------------------------------------------------------
\* BTCPSocket.in_cksum
\* ------------------------------------------------------------------------

\* The for loop of in_cksum: the sum of (segment[i] << 8) + segment[i+1]
\* over i = 0, 2, 4, ... below len(segment), taken from index i on.
RECURSIVE WordSum(_, _)
WordSum(seg, i) ==
    IF i >= Len(seg) THEN 0
    ELSE (seg[i + 1] * 256 + seg[i + 2]) + WordSum(seg, i + 2)

\* One pass of the while loop's body: (total & 0xFFFF) + (total >> 16).
FoldOnce(total) == (total % 65536) + (total \div 65536)

\* The while loop of in_cksum: fold while (total >> 16) > 0.
RECURSIVE Fold(_)
Fold(total) == IF (total \div 65536) > 0 THEN Fold(FoldOnce(total)) ELSE total

\* The number of passes the while loop makes.
RECURSIVE FoldPasses(_)
FoldPasses(total) ==
    IF (total \div 65536) > 0 THEN 1 + FoldPasses(FoldOnce(total)) ELSE 0

\* ~total & 0xFFFF for a total in 0..65535.
Complement16(total) == 65535 - (total % 65536)

\* A fold that makes one pass only and cuts what is left: a plausible slip.
FoldSinglePass(total) ==
    IF (total \div 65536) > 0 THEN FoldOnce(total) % 65536 ELSE total

\* in_cksum that returns the folded sum itself, the complement forgotten.
in_cksum_no_complement(seg) ==
    IF Len(seg) % 2 = 1 THEN IndexError
    ELSE PackH(Fold(WordSum(seg, 0)))

\* in_cksum whose loop stops one word early: range(0, len(segment) - 2, 2).
in_cksum_skip_last(seg) ==
    IF Len(seg) % 2 = 1 THEN IndexError
    ELSE PackH(Complement16(Fold(WordSum(PySlice(seg, 0, Len(seg) - 2), 0))))

\* in_cksum with a single folding pass.
in_cksum_single_fold(seg) ==
    IF Len(seg) % 2 = 1 THEN IndexError
    ELSE PackH(Complement16(FoldSinglePass(WordSum(seg, 0))))

\* in_cksum(segment): the packed checksum; segment[i+1] raises IndexError on
\* the last byte of a segment of odd length.
in_cksum(seg) ==
    IF Len(seg) % 2 = 1 THEN IndexError
    ELSE PackH(Complement16(Fold(WordSum(seg, 0))))

\* ------------------------------------------------------------------------
\* BTCPSocket.verify_checksum
\* ------------------------------------------------------------------------

\* The copy of the segment with bytes 8..9 replaced by two bytes.
WithChecksum(seg, two) == PySlice(seg, 0, 8) \o two \o PyTail(seg, 10)

\* verify_checksum that recomputes over the segment as received, the
\* checksum field left in place.
verify_checksum_not_zeroed(seg) == in_cksum(seg) = PySlice(seg, 8, 10)

\* verify_checksum that accepts every segment.
verify_checksum_always(seg) == TRUE

\* verify_checksum(segment).
verify_checksum(seg) ==
    LET checksum_to_verify == PySlice(seg, 8, 10)
        segment_checksum_zeroed == WithChecksum(seg, PackH(0))
        checksum_recomputed == in_cksum(segment_checksum_zeroed)
    IN  checksum_recomputed = checksum_to_verify

\* ------------------------------------------------------------------------
\* BTCPSocket.build_segment_header and unpack_segment_header
\* ------------------------------------------------------------------------

\* syn_set << 2 | ack_set << 1 | fin_set: the three bits are disjoint, so
\* the bitwise or is their sum.
FlagByte(syn_set, ack_set, fin_set) ==
    BoolInt(syn_set) * 4 + BoolInt(ack_set) * 2 + BoolInt(fin_set)

\* struct.pack("!HHBBHH", ...): struct.error when a value does not fit.
PackHeader(seqnum, acknum, flag_byte, window, length, checksum) ==
    LET parts == <<PackH(seqnum), PackH(acknum), PackB(flag_byte),
                   PackB(window), PackH(length), PackH(checksum)>>
    IN  IF \E k \in 1..6 : parts[k] = StructError THEN StructError
        ELSE parts[1] \o parts[2] \o parts[3] \o parts[4] \o parts[5] \o parts[6]

\* build_segment_header with the SYN and ACK bits exchanged.
build_segment_header_swapped(seqnum, acknum, syn_set, ack_set, fin_set, window, length, checksum) ==
    PackHeader(seqnum, acknum, FlagByte(ack_set, syn_set, fin_set),
               window, length, checksum)

\* build_segment_header(seqnum, acknum, syn_set, ack_set, fin_set, window,
\* length, checksum).
build_segment_header(seqnum, acknum, syn_set, ack_set, fin_set, window, length, checksum) ==
    PackHeader(seqnum, acknum, FlagByte(syn_set, ack_set, fin_set),
               window, length, checksum)

\* unpack_segment_header that reads the first 10 bytes of a longer input.
unpack_segment_header_lenient(header) ==
    IF Len(header) < 10 THEN StructError
    ELSE <<UnpackH(header[1], header[2]), UnpackH(header[3], header[4]),
           header[5], header[6],
           UnpackH(header[7], header[8]), UnpackH(header[9], header[10])>>

\* unpack_segment_header(header): struct.unpack("!HHBBHH", header) needs a
\* buffer of exactly 10 bytes and raises struct.error otherwise.
unpack_segment_header(header) ==
    IF Len(header) # 10 THEN StructError
    ELSE <<UnpackH(header[1], header[2]), UnpackH(header[3], header[4]),
           header[5], header[6],
           UnpackH(header[7], header[8]), UnpackH(header[9], header[10])>>

\* ------------------------------------------------------------------------
\* The callers of the static helpers: what is packed, summed and verified
\* ------------------------------------------------------------------------

NoArgs == [seqnum |-> 0, acknum |-> 0, syn_set |-> FALSE, ack_set |-> FALSE,
           fin_set |-> FALSE, window |-> 0, length |-> 0, checksum |-> 0]

\* The values the header fields are drawn from: both ends of each range, a
\* value in each byte of a 16-bit field, and one value struct.pack refuses.
SeqSamples == {0, 1, 256, 65535, 65536}
AckSamples == {0, 258, 65535}
WindowSamples == {0, 1, 255}
LengthSamples == {0, 2, 65535}
ChecksumSamples == {0, 4660, 65535}
ByteSamples == {0, 1, 255}

\* The even-length byte strings of at most n words over ByteSamples.
RECURSIVE WordStrings(_)
WordStrings(n) ==
    IF n = 0 THEN {<<>>}
    ELSE LET shorter == WordStrings(n - 1)
         IN  shorter \cup
             {s \o <<a, b>> : s \in {t \in shorter : Len(t) = 2 * (n - 1)},
                              a \in ByteSamples, b \in ByteSamples}

Payloads == WordStrings(MaxPayloadWords)

HeaderArgs ==
    [seqnum : SeqSamples, acknum : AckSamples, syn_set : BOOLEAN,
     ack_set : BOOLEAN, fin_set : BOOLEAN, window : WindowSamples,
     length : LengthSamples, checksum : ChecksumSamples]

\* The headers a sender builds to compute a checksum over: checksum=0 (the
\* default of build_segment_header) and the length of the payload to come.
SenderArgs ==
    [seqnum : {0, 1, 65535}, acknum : {0, 65535}, syn_set : BOOLEAN,
     ack_set : {FALSE}, fin_set : BOOLEAN, window : {0, 1},
     length : {2 * n : n \in 0..MaxPayloadWords}, checksum : {0}]

BuildFrom(a) ==
    build_segment_header(a.seqnum, a.acknum, a.syn_set, a.ack_set, a.fin_set,
                         a.window, a.length, a.checksum)

\* The byte with bit b (0 = least significant) inverted.
XorBit(byte, b) ==
    IF (byte \div (2 ^ b)) % 2 = 1 THEN byte - 2 ^ b ELSE byte + 2 ^ b

\* The socket variables of a run that only exercises the static helpers.
NoSocket ==
    /\ ctor = [window |-> 1, timeout |-> 1]
    /\ _state = None /\ _window = None /\ _timeout = None
    /\ mailbox = <<>> /\ snd_nxt = 0 /\ rcv_nxt = 0
    /\ timer = FALSE /\ retries = 0 /\ error = None /\ outbox = <<>>
    /\ discarded = FALSE

\* The delivery variables of a run without data transfer.
NoTransfer ==
    /\ sent_stream = <<>> /\ send_buffer = <<>> /\ outstanding = <<>>
    /\ snd_una = 0 /\ peer_window = 0 /\ rwnd = 0 /\ expected = 0
    /\ recv_buffer = <<>> /\ data_chan = {} /\ ack_chan = {}
    /\ faults = 0 /\ early = FALSE

\* --- header codec -------------------------------------------------------

InitHeader ==
    /\ pc = "start"
    /\ args \in HeaderArgs
    /\ segment = <<>>
    /\ cksum = None
    /\ verified = None
    /\ unpacked = None
    /\ NoSocket
    /\ NoTransfer

\* A caller packs a header.
BuildHeader ==
    /\ pc = "start"
    /\ LET h == BuildFrom(args)
       IN  IF h = StructError
           THEN pc' = "build_failed" /\ segment' = segment
           ELSE pc' = "built" /\ segment' = h
    /\ UNCHANGED <<args, cksum, verified, unpacked, fieldVars, fsmVars, gbnVars>>

\* The lossy layer hands over fewer bytes than a header has.
Truncate(n) ==
    /\ pc = "built"
    /\ segment' = PySlice(segment, 0, n)
    /\ pc' = "raw"
    /\ UNCHANGED <<args, cksum, verified, unpacked, fieldVars, fsmVars, gbnVars>>

\* A caller passes the header together with the bytes that follow it.
AppendPayload(p) ==
    /\ pc = "built"
    /\ p # <<>>
    /\ segment' = segment \o p
    /\ pc' = "raw"
    /\ UNCHANGED <<args, cksum, verified, unpacked, fieldVars, fsmVars, gbnVars>>

\* A caller unpacks the bytes at hand.
UnpackHeader ==
    /\ pc \in {"built", "raw"}
    /\ unpacked' = unpack_segment_header(segment)
    /\ pc' = IF pc = "built" THEN "unpacked" ELSE "unpacked_raw"
    /\ UNCHANGED <<args, segment, cksum, verified, fieldVars, fsmVars, gbnVars>>

NextHeader ==
    \/ BuildHeader
    \/ \E n \in 0..9 : Truncate(n)
    \/ \E p \in Payloads : AppendPayload(p)
    \/ UnpackHeader

SpecHeader == InitHeader /\ [][NextHeader]_vars

\* --- checksum -----------------------------------------------------------

InitChecksum ==
    /\ \/ pc = "start" /\ args \in SenderArgs /\ segment = <<>>
       \/ pc = "raw" /\ args = NoArgs /\ segment \in WordStrings(MaxPayloadWords + 1)
    /\ cksum = None
    /\ verified = None
    /\ unpacked = None
    /\ NoSocket
    /\ NoTransfer

\* The sender lays out header (checksum field 0x0000) and payload.
BuildSegment(p) ==
    /\ pc = "start"
    /\ Len(p) = args.length
    /\ segment' = BuildFrom(args) \o p
    /\ pc' = "zeroed"
    /\ UNCHANGED <<args, cksum, verified, unpacked, fieldVars, fsmVars, gbnVars>>

\* in_cksum is called on the bytes at hand.
ComputeChecksum ==
    /\ pc \in {"zeroed", "raw"}
    /\ cksum' = in_cksum(segment)
    /\ pc' = IF pc = "zeroed" THEN "summed" ELSE "summed_raw"
    /\ UNCHANGED <<args, segment, verified, unpacked, fieldVars, fsmVars, gbnVars>>

\* The sender puts the resulting checksum in the place of the 0x0000.
StampChecksum ==
    /\ pc = "summed"
    /\ segment' = WithChecksum(segment, cksum)
    /\ pc' = "stamped"
    /\ UNCHANGED <<args, cksum, verified, unpacked, fieldVars, fsmVars, gbnVars>>

\* in_cksum is called on the segment with its checksum in place.
ChecksumWhole ==
    /\ pc = "stamped"
    /\ cksum' = in_cksum(segment)
    /\ pc' = "residue"
    /\ UNCHANGED <<args, segment, verified, unpacked, fieldVars, fsmVars, gbnVars>>

\* A spurious bit flip on the way: bit b of byte i.
FlipBit(i, b) ==
    /\ pc = "stamped"
    /\ i \in 1..Len(segment)
    /\ segment' = [segment EXCEPT ![i] = XorBit(@, b)]
    /\ pc' = "flipped"
    /\ UNCHANGED <<args, cksum, verified, unpacked, fieldVars, fsmVars, gbnVars>>

\* The receiver verifies what arrived.
VerifySegment ==
    /\ pc \in {"stamped", "flipped"}
    /\ verified' = verify_checksum(segment)
    /\ pc' = IF pc = "stamped" THEN "verified" ELSE "verified_flipped"
    /\ UNCHANGED <<args, segment, cksum, unpacked, fieldVars, fsmVars, gbnVars>>

NextChecksum ==
    \/ \E p \in Payloads : BuildSegment(p)
    \/ ComputeChecksum
    \/ StampChecksum
    \/ ChecksumWhole
    \/ \E i \in 1..(10 + 2 * MaxPayloadWords), b \in 0..7 : FlipBit(i, b)
    \/ VerifySegment

SpecChecksum == InitChecksum /\ [][NextChecksum]_vars

\* ------------------------------------------------------------------------
\* Claims about the checksum and the header codec
\* ------------------------------------------------------------------------

\* End-around-carry addition of two values in 0..65535.
EacAdd(a, b) == IF a + b > 65535 THEN a + b - 65535 ELSE a + b

\* The end-around-carry sum of the big-endian 16-bit words of seg, word by
\* word from index i on.
RECURSIVE EacSum(_, _)
EacSum(seg, i) ==
    IF i >= Len(seg) THEN 0
    ELSE EacAdd(seg[i + 1] * 256 + seg[i + 2], EacSum(seg, i + 2))

\* C1: a segment of even length whose bytes 8..9 hold what in_cksum returned
\* for it (computed with the field 0x0000) passes verify_checksum.
C1_VerifyAcceptsStamped ==
    pc = "verified" => (Len(segment) % 2 = 0 /\ verified = TRUE)

C1_Witness ==
    pc = "verified" /\ verified = TRUE /\ Len(segment) > 10 /\ cksum # <<0, 0>>

\* C2: after any single bit of a correctly checksummed segment is flipped
\* (header, checksum field or payload), verify_checksum returns false.
C2_SingleBitFlipRejected ==
    pc = "verified_flipped" => verified = FALSE

C2_Witness ==
    /\ pc = "verified_flipped"
    /\ verified = FALSE
    /\ Len(segment) > 10
    /\ PySlice(segment, 8, 10) = cksum
    /\ segment[Len(segment)] \notin ByteSamples

\* C3: for arguments in range, unpacking a built header gives back
\* (seqnum, acknum, flag_byte, window, length, checksum), where flag_byte
\* has bit0=FIN, bit1=ACK, bit2=SYN and nothing else, and the header is
\* exactly 10 bytes.
C3_HeaderRoundTrip ==
    pc = "unpacked" =>
        /\ Len(segment) = 10
        /\ unpacked # StructError
        /\ unpacked[1] = args.seqnum
        /\ unpacked[2] = args.acknum
        /\ unpacked[4] = args.window
        /\ unpacked[5] = args.length
        /\ unpacked[6] = args.checksum
        /\ unpacked[3] \in 0..7
        /\ (unpacked[3] % 2 = 1) = args.fin_set
        /\ ((unpacked[3] \div 2) % 2 = 1) = args.ack_set
        /\ ((unpacked[3] \div 4) % 2 = 1) = args.syn_set

C3_Witness ==
    /\ pc = "unpacked"
    /\ unpacked = <<256, 258, 6, 255, 65535, 4660>>
    /\ args.syn_set /\ args.ack_set /\ ~args.fin_set

\* The length field of the bytes at hand, when they hold a whole header.
LengthField(bytes) == UnpackH(bytes[7], bytes[8])

\* C4 as stated: decoding fails whenever fewer than 10 bytes are given or
\* the length field differs from the number of bytes after the header, and
\* a parseable segment decodes whatever its checksum.
C4_DecodeValidatesLength ==
    pc \in {"unpacked", "unpacked_raw"} =>
        /\ (Len(segment) < 10 => unpacked = StructError)
        /\ (Len(segment) >= 10 /\ LengthField(segment) # Len(segment) - 10
                => unpacked = StructError)
        /\ (Len(segment) >= 10 /\ LengthField(segment) = Len(segment) - 10
                => unpacked # StructError)

\* C4 as amended: unpacking fails, with struct.error, exactly when the
\* input is not 10 bytes long; a 10-byte header unpacks whatever its length
\* and checksum fields hold, and both come back as they are in the bytes.
C4_UnpackFailsIffNotTenBytes ==
    pc \in {"unpacked", "unpacked_raw"} =>
        /\ (unpacked = StructError) = (Len(segment) # 10)
        /\ Len(segment) = 10 =>
              /\ unpacked[5] = LengthField(segment)
              /\ unpacked[6] = UnpackH(segment[9], segment[10])

C4_Witness ==
    /\ pc = "unpacked"
    /\ Len(segment) = 10
    /\ unpacked # StructError
    /\ unpacked[5] = 2
    /\ unpacked[6] = 4660

\* C9: on every byte string of even length, the empty one included, the
\* folding loop of in_cksum ends (within two passes) with a sum in 0..65535,
\* and in_cksum returns, as 2 big-endian bytes, 65535 minus the
\* end-around-carry sum of the string's 16-bit words.
C9_OnesComplementOfEacSum ==
    pc \in {"summed", "summed_raw", "residue"} =>
        LET total == WordSum(segment, 0)
            c == 65535 - EacSum(segment, 0)
        IN  /\ Len(segment) % 2 = 0
            /\ FoldPasses(total) <= 2
            /\ Fold(total) \in 0..65535
            /\ Fold(total) = EacSum(segment, 0)
            /\ Len(cksum) = 2
            /\ cksum = <<c \div 256, c % 256>>

C9_Witness ==
    /\ pc = "summed"
    /\ FoldPasses(WordSum(segment, 0)) = 2
    /\ cksum = <<255, 254>>

\* C10: in_cksum over a segment that carries its correct checksum, the
\* field left in place, returns 0x0000.
C10_ResidueIsZero ==
    pc = "residue" => cksum = <<0, 0>>

C10_Witness ==
    /\ pc = "residue"
    /\ cksum = <<0, 0>>
    /\ PySlice(segment, 8, 10) = <<255, 255>>
    /\ WordSum(segment, 0) = 65535

\* ------------------------------------------------------------------------
\* BTCPStates, BTCPSignals and BTCPSocket.__init__
\* ------------------------------------------------------------------------

\* The members of the enum BTCPStates.
BTCPStates ==
    {"CLOSED", "ACCEPTING", "SYN_SENT", "SYN_RCVD", "ESTABLISHED",
     "FIN_SENT", "CLOSING"}

\* The members of the enum BTCPSignals.
BTCPSignals == {"ACCEPT", "CONNECT", "SHUTDOWN"}

\* __init__ that starts the socket listening.
BTCPSocket_init_accepting(window, timeout) ==
    [_window |-> window, _timeout |-> timeout, _state |-> "ACCEPTING"]

\* __init__ with the two assignments crossed.
BTCPSocket_init_crossed(window, timeout) ==
    [_window |-> timeout, _timeout |-> window, _state |-> "CLOSED"]

\* BTCPSocket.__init__(window, timeout): the fields of the new socket.
BTCPSocket_init(window, timeout) ==
    [_window |-> window, _timeout |-> timeout, _state |-> "CLOSED"]

\* ------------------------------------------------------------------------
\* The connection state machine of the design (section 4.3), which the
\* socket's subclasses drive from the network loop's tick
\* ------------------------------------------------------------------------

\* The states of the design's transition table.
FsmStates == BTCPStates \cup {"CLOSE_WAIT"}

\* The states in which a handshake or teardown response is awaited.
AwaitingStates == {"SYN_SENT", "SYN_RCVD", "FIN_SENT", "CLOSING"}

ConnectionTimeout == "ConnectionTimeout"
Malformed == [error |-> "MalformedSegment"]

\* Initial sequence numbers and timeouts the model draws from.
IsnSamples == {65535}
TimeoutSamples == {100}

\* Sequence numbers live modulo 65536.
SeqAdd(n, k) == (n + k) % 65536

\* a is before b: (b - a) mod 65536 lies in the lower half of the space.
SeqBefore(a, b) == ((b - a) % 65536) \in 1..32767

\* encode: the header with the checksum field zero, the checksum over
\* header and payload, the header again with the checksum, the payload.
Encode(seqnum, acknum, syn, ack, fin, window, payload) ==
    LET zeroed == build_segment_header(seqnum, acknum, syn, ack, fin,
                                       window, Len(payload), 0) \o payload
    IN  WithChecksum(zeroed, in_cksum(zeroed))

\* decode: MalformedSegment for fewer than 10 bytes or a length field that
\* is not the number of bytes after the header; the checksum is not looked
\* at.
Decode(raw) ==
    IF Len(raw) < 10 THEN Malformed
    ELSE LET u == unpack_segment_header(PySlice(raw, 0, 10))
         IN  IF u[5] # Len(raw) - 10 THEN Malformed
             ELSE [seqnum |-> u[1], acknum |-> u[2],
                   syn |-> (u[3] \div 4) % 2 = 1,
                   ack |-> (u[3] \div 2) % 2 = 1,
                   fin |-> u[3] % 2 = 1,
                   window |-> u[4], length |-> u[5], checksum |-> u[6],
                   payload |-> PyTail(raw, 10)]

\* Whether the network loop processes raw: a malformed segment and one
\* whose checksum does not verify are dropped silently.
Accepted(raw) == Decode(raw) # Malformed /\ verify_checksum(raw)

\* What the lossy layer may do to a segment on its way.
Damaged(raw, damage) ==
    CASE damage = "bitflip" -> [raw EXCEPT ![5] = XorBit(@, 2)]
      [] damage = "truncated" -> PySlice(raw, 0, 9)
      [] OTHER -> raw

\* The control segment the timer of an awaiting state resends.
Awaited(state) ==
    LET seq == SeqAdd(snd_nxt, 65535)
    IN  CASE state = "SYN_SENT" -> Encode(seq, 0, TRUE, FALSE, FALSE, _window, <<>>)
          [] state = "SYN_RCVD" -> Encode(seq, rcv_nxt, TRUE, TRUE, FALSE, _window, <<>>)
          [] OTHER -> Encode(seq, rcv_nxt, FALSE, FALSE, TRUE, _window, <<>>)

InitSocket ==
    /\ pc = "start"
    /\ args = NoArgs
    /\ segment = <<>>
    /\ cksum = None
    /\ verified = None
    /\ unpacked = None
    /\ ctor \in [window : 1..MaxWindow, timeout : TimeoutSamples]
    /\ LET self == BTCPSocket_init(ctor.window, ctor.timeout)
       IN  /\ _state = self._state
           /\ _window = self._window
           /\ _timeout = self._timeout
    /\ mailbox = <<>>
    /\ snd_nxt \in IsnSamples
    /\ rcv_nxt = 0
    /\ timer = FALSE
    /\ retries = 0
    /\ error = None
    /\ outbox = <<>>
    /\ discarded = FALSE
    /\ NoTransfer

\* The application thread leaves a signal for the network thread.
AppSignal(sig) ==
    /\ Len(mailbox) < MaxMailbox
    /\ mailbox' = Append(mailbox, sig)
    /\ UNCHANGED <<codecVars, fieldVars, gbnVars, snd_nxt, rcv_nxt, timer, retries, error, outbox, discarded>>

\* A tick of the network loop takes the oldest signal.
TickSignal ==
    /\ mailbox # <<>>
    /\ mailbox' = Tail(mailbox)
    /\ LET sig == Head(mailbox)
       IN  CASE _state = "CLOSED" /\ ~discarded /\ sig = "ACCEPT" ->
                  /\ _state' = "ACCEPTING"
                  /\ UNCHANGED <<snd_nxt, timer, retries, outbox>>
             [] _state = "CLOSED" /\ ~discarded /\ sig = "CONNECT" ->
                  /\ _state' = "SYN_SENT"
                  /\ outbox' = Encode(snd_nxt, 0, TRUE, FALSE, FALSE, _window, <<>>)
                  /\ snd_nxt' = SeqAdd(snd_nxt, 1)
                  /\ timer' = TRUE
                  /\ retries' = 0
             [] _state = "ESTABLISHED" /\ sig = "SHUTDOWN" ->
                  /\ _state' = "FIN_SENT"
                  /\ outbox' = Encode(snd_nxt, rcv_nxt, FALSE, FALSE, TRUE, _window, <<>>)
                  /\ snd_nxt' = SeqAdd(snd_nxt, 1)
                  /\ timer' = TRUE
                  /\ retries' = 0
             [] _state = "CLOSE_WAIT" /\ sig = "SHUTDOWN" ->
                  /\ _state' = "CLOSING"
                  /\ outbox' = Encode(snd_nxt, rcv_nxt, FALSE, FALSE, TRUE, _window, <<>>)
                  /\ snd_nxt' = SeqAdd(snd_nxt, 1)
                  /\ timer' = TRUE
                  /\ retries' = 0
             [] OTHER ->
                  UNCHANGED <<_state, snd_nxt, timer, retries, outbox>>
    /\ UNCHANGED <<codecVars, gbnVars, ctor, _window, _timeout, rcv_nxt, error, discarded>>

\* A tick of the network loop takes a segment the lossy layer delivered.
TickSegment(raw) ==
    /\ IF ~Accepted(raw)
       THEN UNCHANGED <<_state, snd_nxt, rcv_nxt, timer, retries, outbox>>
       ELSE LET d == Decode(raw)
                acks_fin == d.ack /\ ~d.syn /\ ~d.fin /\ d.acknum = snd_nxt
            IN  CASE _state = "ACCEPTING" /\ d.syn /\ ~d.ack /\ ~d.fin ->
                       /\ _state' = "SYN_RCVD"
                       /\ rcv_nxt' = SeqAdd(d.seqnum, 1)
                       /\ outbox' = Encode(snd_nxt, SeqAdd(d.seqnum, 1), TRUE, TRUE, FALSE, _window, <<>>)
                       /\ snd_nxt' = SeqAdd(snd_nxt, 1)
                       /\ timer' = TRUE
                       /\ retries' = 0
                  [] _state = "SYN_SENT" /\ d.syn /\ d.ack /\ ~d.fin ->
                       /\ _state' = "ESTABLISHED"
                       /\ rcv_nxt' = SeqAdd(d.seqnum, 1)
                       /\ outbox' = Encode(snd_nxt, SeqAdd(d.seqnum, 1), FALSE, TRUE, FALSE, _window, <<>>)
                       /\ timer' = FALSE
                       /\ UNCHANGED <<snd_nxt, retries>>
                  [] _state = "SYN_RCVD" /\ d.ack /\ ~d.syn /\ ~d.fin ->
                       /\ _state' = "ESTABLISHED"
                       /\ UNCHANGED <<snd_nxt, rcv_nxt, timer, retries, outbox>>
                  [] _state = "ESTABLISHED" /\ d.fin /\ ~d.syn ->
                       /\ _state' = "CLOSE_WAIT"
                       /\ rcv_nxt' = SeqAdd(d.seqnum, 1)
                       /\ outbox' = Encode(snd_nxt, SeqAdd(d.seqnum, 1), FALSE, TRUE, FALSE, _window, <<>>)
                       /\ UNCHANGED <<snd_nxt, timer, retries>>
                  [] _state = "FIN_SENT" /\ acks_fin ->
                       /\ _state' = "CLOSED"
                       /\ timer' = FALSE
                       /\ UNCHANGED <<snd_nxt, rcv_nxt, retries, outbox>>
                  [] _state = "FIN_SENT" /\ d.fin /\ ~d.syn ->
                       /\ _state' = "CLOSING"
                       /\ rcv_nxt' = SeqAdd(d.seqnum, 1)
                       /\ outbox' = Encode(snd_nxt, SeqAdd(d.seqnum, 1), FALSE, TRUE, FALSE, _window, <<>>)
                       /\ timer' = TRUE
                       /\ retries' = 0
                       /\ UNCHANGED snd_nxt
                  [] _state = "CLOSING" /\ acks_fin ->
                       /\ _state' = "CLOSED"
                       /\ timer' = FALSE
                       /\ UNCHANGED <<snd_nxt, rcv_nxt, retries, outbox>>
                  [] OTHER ->
                       UNCHANGED <<_state, snd_nxt, rcv_nxt, timer, retries, outbox>>
    /\ discarded' = (discarded \/ (_state # "CLOSED" /\ _state' = "CLOSED"))
    /\ UNCHANGED <<codecVars, gbnVars, ctor, _window, _timeout, mailbox, error>>

\* A tick of the network loop finds the timer of an awaiting state expired:
\* the awaited segment is resent, a bounded number of times, and then the
\* connection is forced to CLOSED with an error for the application.
TickTimeout ==
    /\ timer
    /\ _state \in AwaitingStates
    /\ IF retries < MaxRetries
       THEN /\ retries' = retries + 1
            /\ outbox' = Awaited(_state)
            /\ UNCHANGED <<_state, timer, error, discarded>>
       ELSE /\ _state' = "CLOSED"
            /\ timer' = FALSE
            /\ retries' = 0
            /\ error' = ConnectionTimeout
            /\ discarded' = TRUE
            /\ UNCHANGED outbox
    /\ UNCHANGED <<codecVars, gbnVars, ctor, _window, _timeout, mailbox, snd_nxt, rcv_nxt>>

\* The segments the peer may have sent, as the lossy layer delivers them.
Inbound ==
    LET good == {<<a, syn, ack, fin>> :
                    a \in {snd_nxt, SeqAdd(snd_nxt, 65535)},
                    syn \in BOOLEAN, ack \in BOOLEAN, fin \in BOOLEAN}
        Sent(g) == Encode(200, g[1], g[2], g[3], g[4], 1, <<>>)
    IN  {Sent(g) : g \in good}
        \cup {Damaged(Sent(g), "bitflip") : g \in {h \in good : h[1] = snd_nxt}}
        \cup {Damaged(Sent(<<snd_nxt, TRUE, FALSE, FALSE>>), "truncated")}

NextSocket ==
    \/ \E sig \in BTCPSignals : AppSignal(sig)
    \/ TickSignal
    \/ \E raw \in Inbound : TickSegment(raw)
    \/ TickTimeout
    \/ BuildHeader
    \/ UnpackHeader
    \/ BuildSegment(<<>>)
    \/ ComputeChecksum
    \/ StampChecksum
    \/ VerifySegment

SpecSocket == InitSocket /\ [][NextSocket]_vars

\* ------------------------------------------------------------------------
\* Claims about the socket's state
\* ------------------------------------------------------------------------

\* C5: the state of an endpoint is always one of exactly eight states,
\* CLOSED, ACCEPTING, SYN_SENT, SYN_RCVD, ESTABLISHED, CLOSE_WAIT, FIN_SENT
\* and CLOSING, CLOSE_WAIT among them as a state of its own.
C5_EightStates ==
    /\ BTCPStates = {"CLOSED", "ACCEPTING", "SYN_SENT", "SYN_RCVD",
                     "ESTABLISHED", "CLOSE_WAIT", "FIN_SENT", "CLOSING"}
    /\ _state \in BTCPStates

\* What C8 says of a single step.
C8_Step ==
    /\ (_state = "CLOSED" /\ _state' # "CLOSED") =>
          /\ mailbox # <<>>
          /\ mailbox' = Tail(mailbox)
          /\ \/ Head(mailbox) = "ACCEPT" /\ _state' = "ACCEPTING"
             \/ Head(mailbox) = "CONNECT" /\ _state' = "SYN_SENT"
    /\ (codecVars' # codecVars) => (_state' = _state)
    /\ _window' = _window
    /\ _timeout' = _timeout

\* C8: a new socket is CLOSED and holds the window and timeout it was
\* given; its state leaves CLOSED only when a tick handles an ACCEPT signal
\* (to ACCEPTING) or a CONNECT signal (to SYN_SENT); no checksum, pack or
\* unpack call changes the state.
C8_Lifecycle ==
    /\ _state = "CLOSED" /\ _window = ctor.window /\ _timeout = ctor.timeout
    /\ [][C8_Step]_vars

C8_Witness ==
    /\ _state = "SYN_SENT"
    /\ pc = "verified"
    /\ unpacked = None
    /\ _window = 2 /\ _timeout = 100
    /\ retries = 1

\* ------------------------------------------------------------------------
\* The reliable-delivery engine of the design (section 4.4) on an
\* established connection: the socket sends, its peer receives
\* ------------------------------------------------------------------------

\* The k-th word the application sends: every byte of the stream differs.
AppWord(k) == <<k, 128 + k>>

\* The sequence number the first data segment carries: the data crosses
\* the wraparound of the sequence space.
DataStartSamples == {65534}

\* The place where the lossy layer damages a segment, <<byte, bit>>: a bit
\* of the payload, or of the acknowledgment number when there is none.
FlipSite(raw) == IF Len(raw) > 10 THEN <<12, 0>> ELSE <<4, 1>>

\* The payload of one data segment: one word.
ChunkOf(buffer) == PySlice(buffer, 0, 2)

\* The segments of the outstanding list that acknum does not acknowledge.
Unacked(list, acknum) == SelectSeq(list, LAMBDA o : ~SeqBefore(o.seq, acknum))

\* The sequence numbers the data of a connection can carry.
DataSeqs == {SeqAdd(start, 2 * k) : start \in DataStartSamples, k \in 0..MaxWords}

\* The arguments of encode for the segments of a transfer: a data segment
\* of the socket, an acknowledgment of its peer.
TransferArgs ==
    [seqnum : DataSeqs, acknum : {201}, syn : {FALSE}, ack : {FALSE},
     fin : {FALSE}, window : 1..MaxWindow,
     payload : {AppWord(k) : k \in 1..MaxWords}]
    \cup
    [seqnum : {201}, acknum : DataSeqs, syn : {FALSE}, ack : {TRUE},
     fin : {FALSE}, window : 1..MaxWindow, payload : {<<>>}]

EncodeArgs(a) ==
    Encode(a.seqnum, a.acknum, a.syn, a.ack, a.fin, a.window, a.payload)

\* The segment with the bit at its flip site inverted.
Flipped(raw) ==
    LET site == FlipSite(raw)
    IN  [raw EXCEPT ![site[1]] = XorBit(@, site[2])]

\* What the receiving network loop makes of raw: whether it processes it
\* and what it decodes.
Receive(raw) == [ok |-> Accepted(raw), d |-> Decode(raw)]

\* The segments of a transfer, encoded once, and what their receiver makes
\* of each, damaged or not (f @@ <<>> is f with every value computed).
EncodedTable == [a \in TransferArgs |-> EncodeArgs(a)] @@ <<>>
ReceivedTable ==
    LET sent == {EncodedTable[a] : a \in TransferArgs}
    IN  [raw \in sent \cup {Flipped(r) : r \in sent} |-> Receive(raw)] @@ <<>>

Encoded(a) == IF a \in TransferArgs THEN EncodedTable[a] ELSE EncodeArgs(a)
Received(raw) ==
    IF raw \in DOMAIN ReceivedTable THEN ReceivedTable[raw] ELSE Receive(raw)

\* The acknowledgment the peer sends for acknum.
AckFor(acknum) ==
    Encoded([seqnum |-> rcv_nxt, acknum |-> acknum, syn |-> FALSE,
             ack |-> TRUE, fin |-> FALSE, window |-> rwnd, payload |-> <<>>])

InitTransfer ==
    /\ pc = "start"
    /\ args = NoArgs
    /\ segment = <<>>
    /\ cksum = None
    /\ verified = None
    /\ unpacked = None
    /\ ctor \in [window : 1..MaxWindow, timeout : TimeoutSamples]
    /\ LET self == BTCPSocket_init(ctor.window, ctor.timeout)
       IN  /\ _window = self._window
           /\ _timeout = self._timeout
    /\ _state = "ESTABLISHED"
    /\ mailbox = <<>>
    /\ snd_nxt \in DataStartSamples
    /\ snd_una = snd_nxt
    /\ expected = snd_nxt
    /\ rcv_nxt = 201
    /\ timer = FALSE
    /\ retries = 0
    /\ error = None
    /\ outbox = <<>>
    /\ discarded = FALSE
    /\ sent_stream = <<>>
    /\ send_buffer = <<>>
    /\ outstanding = <<>>
    /\ rwnd \in 1..MaxWindow
    /\ peer_window = rwnd
    /\ recv_buffer = <<>>
    /\ data_chan = {}
    /\ ack_chan = {}
    /\ faults = 0
    /\ early = FALSE

\* The application sends one more word: it goes to the send buffer.
AppSend ==
    /\ _state = "ESTABLISHED"
    /\ Len(sent_stream) < 2 * MaxWords
    /\ LET word == AppWord(Len(sent_stream) \div 2 + 1)
       IN  /\ sent_stream' = sent_stream \o word
           /\ send_buffer' = send_buffer \o word
    /\ UNCHANGED <<codecVars, fieldVars, fsmVars, outstanding, snd_una,
                   peer_window, rwnd, expected, recv_buffer, data_chan,
                   ack_chan, faults, early>>

\* A tick segments the head of the send buffer, if the window has room.
SendData ==
    /\ _state = "ESTABLISHED"
    /\ send_buffer # <<>>
    /\ Len(outstanding) < Min(_window, peer_window)
    /\ LET chunk == ChunkOf(send_buffer)
           raw == Encoded([seqnum |-> snd_nxt, acknum |-> rcv_nxt,
                           syn |-> FALSE, ack |-> FALSE, fin |-> FALSE,
                           window |-> _window, payload |-> chunk])
       IN  /\ outstanding' = Append(outstanding, [seq |-> snd_nxt, raw |-> raw])
           /\ data_chan' = data_chan \cup {raw}
           /\ snd_nxt' = SeqAdd(snd_nxt, Len(chunk))
           /\ send_buffer' = PyTail(send_buffer, Len(chunk))
    /\ timer' = TRUE
    /\ retries' = IF timer THEN retries ELSE 0
    /\ UNCHANGED <<codecVars, fieldVars, mailbox, rcv_nxt, error, outbox,
                   discarded, sent_stream, snd_una, peer_window, rwnd,
                   expected, recv_buffer, ack_chan, faults, early>>

\* What the lossy layer hands over of raw.
Delivered(raw, fault) == IF fault = "damaged" THEN Flipped(raw) ELSE raw

\* The peer's tick takes a data segment from the lossy layer, which may
\* deliver it intact, deliver it and keep a duplicate for later, or deliver
\* it with a bit flipped.
ReceiveData(raw, fault) ==
    /\ raw \in data_chan
    /\ fault # "none" => faults < MaxFaults
    /\ faults' = IF fault # "none" THEN faults + 1 ELSE faults
    /\ data_chan' = IF fault = "duplicated" THEN data_chan ELSE data_chan \ {raw}
    /\ LET rx == Received(Delivered(raw, fault))
       IN  IF ~rx.ok
           THEN UNCHANGED <<expected, recv_buffer, ack_chan>>
           ELSE CASE rx.d.syn \/ rx.d.fin \/ rx.d.length = 0 ->
                       UNCHANGED <<expected, recv_buffer, ack_chan>>
                  [] rx.d.seqnum = expected ->
                       /\ recv_buffer' = recv_buffer \o rx.d.payload
                       /\ expected' = SeqAdd(expected, rx.d.length)
                       /\ ack_chan' = ack_chan \cup
                                        {AckFor(SeqAdd(expected, rx.d.length))}
                  [] SeqBefore(rx.d.seqnum, expected) ->
                       /\ ack_chan' = ack_chan \cup {AckFor(expected)}
                       /\ UNCHANGED <<expected, recv_buffer>>
                  [] OTHER ->
                       UNCHANGED <<expected, recv_buffer, ack_chan>>
    /\ UNCHANGED <<codecVars, fieldVars, fsmVars, sent_stream, send_buffer,
                   outstanding, snd_una, peer_window, rwnd, early>>

\* The socket's tick takes an acknowledgment from the lossy layer.
ReceiveAck(raw, fault) ==
    /\ raw \in ack_chan
    /\ fault # "none" => faults < MaxFaults
    /\ faults' = IF fault # "none" THEN faults + 1 ELSE faults
    /\ ack_chan' = IF fault = "duplicated" THEN ack_chan ELSE ack_chan \ {raw}
    /\ LET rx == Received(Delivered(raw, fault))
       IN  IF /\ _state = "ESTABLISHED"
              /\ rx.ok
              /\ rx.d.ack /\ ~rx.d.syn /\ ~rx.d.fin
              /\ SeqBefore(snd_una, rx.d.acknum)
           THEN /\ snd_una' = rx.d.acknum
                /\ outstanding' = Unacked(outstanding, rx.d.acknum)
                /\ peer_window' = rx.d.window
                /\ timer' = (Unacked(outstanding, rx.d.acknum) # <<>>)
                /\ retries' = 0
           ELSE UNCHANGED <<snd_una, outstanding, peer_window, timer, retries>>
    /\ UNCHANGED <<codecVars, fieldVars, mailbox, snd_nxt, rcv_nxt, error,
                   outbox, discarded, sent_stream, send_buffer, rwnd,
                   expected, recv_buffer, data_chan, early>>

\* The socket's tick finds the timer expired: every outstanding segment is
\* resent in order, a bounded number of times, and then the connection is
\* aborted.
RetransmitTimeout ==
    /\ _state = "ESTABLISHED"
    /\ timer
    /\ outstanding # <<>>
    /\ IF retries < MaxRetries
       THEN /\ retries' = retries + 1
            /\ data_chan' = data_chan \cup
                    {outstanding[k].raw : k \in 1..Len(outstanding)}
            /\ early' = (early \/ data_chan # {} \/ ack_chan # {})
            /\ UNCHANGED <<_state, timer, error, discarded>>
       ELSE /\ _state' = "CLOSED"
            /\ timer' = FALSE
            /\ retries' = 0
            /\ error' = ConnectionTimeout
            /\ discarded' = TRUE
            /\ UNCHANGED <<data_chan, early>>
    /\ UNCHANGED <<codecVars, ctor, _window, _timeout, mailbox, snd_nxt,
                   rcv_nxt, outbox, sent_stream, send_buffer, outstanding, snd_una,
                   peer_window, rwnd, expected, recv_buffer, ack_chan, faults>>

\* The lossy layer loses a segment in flight.
LoseSegment(raw) ==
    /\ faults < MaxFaults
    /\ raw \in data_chan \cup ack_chan
    /\ faults' = faults + 1
    /\ data_chan' = data_chan \ {raw}
    /\ ack_chan' = ack_chan \ {raw}
    /\ UNCHANGED <<codecVars, fieldVars, fsmVars, sent_stream, send_buffer,
                   outstanding, snd_una, peer_window, rwnd, expected,
                   recv_buffer, early>>

\* What the lossy layer can do to a segment it delivers.
Faults == {"none", "duplicated", "damaged"}

NextTransfer ==
    \/ AppSend
    \/ SendData
    \/ \E raw \in data_chan, fault \in Faults : ReceiveData(raw, fault)
    \/ \E raw \in ack_chan, fault \in Faults : ReceiveAck(raw, fault)
    \/ RetransmitTimeout
    \/ \E raw \in data_chan \cup ack_chan : LoseSegment(raw)

SpecTransfer == InitTransfer /\ [][NextTransfer]_vars

\* The scheduling of the design: the network loops tick for ever, so a
\* segment the window admits is sent, a segment in flight is delivered
\* unless the lossy layer loses it, and an expired timer is noticed.
FairTransfer ==
    /\ SpecTransfer
    /\ WF_vars(SendData)
    /\ WF_vars(\E raw \in data_chan : ReceiveData(raw, "none"))
    /\ WF_vars(\E raw \in ack_chan : ReceiveAck(raw, "none"))
    /\ WF_vars(RetransmitTimeout)

\* ------------------------------------------------------------------------
\* Claims about the delivery engine
\* ------------------------------------------------------------------------

\* a is a prefix of b.
IsPrefix(a, b) == Len(a) <= Len(b) /\ a = SubSeq(b, 1, Len(a))

\* C6: the segments sent and not yet acknowledged are never more than the
\* window the socket was constructed with, nor more than the window the
\* peer advertised.
C6_OutstandingWithinWindow ==
    /\ Len(outstanding) <= ctor.window
    /\ Len(outstanding) <= peer_window

\* The window is full while the application has more to send.
C6_Witness ==
    /\ outstanding # <<>>
    /\ Len(outstanding) = Min(ctor.window, peer_window)
    /\ send_buffer # <<>>

\* Everything the application has sent so far has been delivered.
AllDelivered == recv_buffer = sent_stream

====
